---------------------------- MODULE Spec2Model ----------------------------
(***************************************************************************)
(* A model of the license server of src/app.py: the session-token codec    *)
(* (generate_session_token, verify_session_token), the /api/authorize      *)
(* state machine over the licenses and active_sessions tables, and the     *)
(* administrative operations.                                              *)
(*                                                                         *)
(* Time.  A datetime is an integer number of hours; datetime.now() is the  *)
(* variable clock.  A timedelta(hours = h) is the integer h.               *)
(*                                                                         *)
(* Strings.  A Python str is a sequence of chunks.  A chunk is either the  *)
(* one-character string ":" or a run of characters holding no colon, so    *)
(* that str.split(':') and the f-string joins are computed on the model    *)
(* the way Python computes them on characters.                             *)
(***************************************************************************)
EXTENDS Integers, Sequences, FiniteSets, TLC

VARIABLES
    clock,      \* datetime.now()
    licenses,   \* table licenses: key_code -> row (committed state)
    sessions,   \* table active_sessions: user_email -> row (committed state)
    pc,         \* per request slot: the statement of authorize() it is at
    req,        \* per request slot: the JSON body and the identity it proves
    loc,        \* per request slot: the locals of authorize()
    txn,        \* per request slot: the uncommitted writes of its connection
    resp,       \* per request slot: the HTTP response
    effects,    \* per request slot: the mutations its commits have applied
    pre,        \* the store and the clock as a traced request found them
    out,        \* the response of the latest /api/status or /admin/revoke call,
                \* kept until a traced request arrives or the clock advances
    ctok,       \* codec harness: the token handed to /api/verify_session
    vres        \* codec harness: the response of /api/verify_session

vars == <<clock, licenses, sessions, pc, req, loc, txn, resp, effects, pre, out, ctok, vres>>
serverVars == <<licenses, sessions, pc, req, loc, txn, resp, effects, pre, out>>
codecVars == <<ctok, vres>>

---------------------------------------------------------------------------
(* Bounds and input sets *)

MaxClock == 2

Accounts == {"alice", "bob"}
Keys == {"k1", "k2"}
Durations == {0, 1}
Hours == {-1, 1, 2}
Procs == {"r1", "r2"}

MaxDuration == CHOOSE d \in Durations \cup Hours : \A e \in Durations \cup Hours : e <= d

\* every datetime a token or a session row of the model can hold
DateTimes == (0 - MaxClock - MaxDuration) .. (MaxClock + MaxClock + MaxDuration)

---------------------------------------------------------------------------
(* Strings *)

Sep == ":"
None == <<>>

RECURSIVE SplitFrom(_, _, _)
SplitFrom(s, i, cur) ==
    IF i > Len(s) THEN <<cur>>
    ELSE IF s[i] = Sep THEN <<cur>> \o SplitFrom(s, i + 1, <<>>)
    ELSE SplitFrom(s, i + 1, Append(cur, s[i]))

\* s.split(':')
split(s) == SplitFrom(s, 1, <<>>)

RECURSIVE Flat(_)
Flat(s) == IF s = <<>> THEN "" ELSE Head(s) \o Flat(Tail(s))

\* the date and the hour of a datetime, "YYYY-MM-DDTHH": one colon-free chunk
DateHour(t) == "T" \o ToString(t)

\* datetime.isoformat(): "YYYY-MM-DDTHH:MM:SS"
isoformat(t) == <<DateHour(t), Sep, "00", Sep, "00">>

\* datetime.fromisoformat(): accepts what isoformat() writes and the shorter
\* "YYYY-MM-DDTHH"; raises ValueError (ok = FALSE) on anything else
fromisoformat(s) ==
    IF \E t \in DateTimes : s = isoformat(t) \/ s = <<DateHour(t)>>
    THEN [ok |-> TRUE,
          t |-> CHOOSE t \in DateTimes : s = isoformat(t) \/ s = <<DateHour(t)>>]
    ELSE [ok |-> FALSE, t |-> 0]

---------------------------------------------------------------------------
(* Credential codec *)

SESSION_SECRET == "change-this"
TagLen == 16

\* hmac.new(secret, message, sha256).hexdigest()[:16]: a str of one colon-free
\* chunk, taken to be collision free
hexdigest16(secret, message) == <<"hmac[" \o secret \o "|" \o Flat(message) \o "]">>

generate_session_token(email, hours, now) ==
    LET expiry == now + hours
        expiry_str == isoformat(expiry)
        message == email \o <<Sep>> \o expiry_str
        signature == hexdigest16(SESSION_SECRET, message)
    IN  email \o <<Sep>> \o expiry_str \o <<Sep>> \o signature

\* a verifier that takes the first and the last field and checks the tag only
verify_signature_only(token, now) ==
    LET parts == split(token)
        email == parts[1]
        signature == parts[Len(parts)]
        body == SubSeq(token, 1, Len(token) - 2)
    IN  IF Len(parts) < 3 THEN [valid |-> FALSE, email |-> None, error |-> "Invalid token format"]
        ELSE IF signature # hexdigest16(SESSION_SECRET, body)
        THEN [valid |-> FALSE, email |-> None, error |-> "Invalid signature"]
        ELSE [valid |-> TRUE, email |-> email, error |-> ""]

verify_session_token(token, now) ==
    LET parts == split(token)
    IN  IF Len(parts) # 3
        THEN [valid |-> FALSE, email |-> None, error |-> "Invalid token format"]
        ELSE
        LET email == parts[1]
            expiry_str == parts[2]
            signature == parts[3]
            expiry == fromisoformat(expiry_str)
            message == email \o <<Sep>> \o expiry_str
            expected_sig == hexdigest16(SESSION_SECRET, message)
        IN  IF ~expiry.ok
            THEN [valid |-> FALSE, email |-> None, error |-> "Invalid isoformat string"]
            ELSE IF now > expiry.t
            THEN [valid |-> FALSE, email |-> email, error |-> "Session expired"]
            ELSE IF signature # expected_sig
            THEN [valid |-> FALSE, email |-> None, error |-> "Invalid signature"]
            ELSE [valid |-> TRUE, email |-> email, error |-> ""]

\* a verifier that also asks the store whether the account still has a session
verify_session_online(session_token, now) ==
    IF session_token = None
    THEN [code |-> 400, valid |-> FALSE, email |-> None, error |-> "No session token provided"]
    ELSE LET r == verify_session_token(session_token, now)
         IN  IF r.valid /\ sessions[r.email[1]].present
             THEN [code |-> 200, valid |-> TRUE, email |-> r.email, error |-> ""]
             ELSE IF r.valid
             THEN [code |-> 403, valid |-> FALSE, email |-> None, error |-> "Session revoked"]
             ELSE [code |-> 403, valid |-> FALSE, email |-> None, error |-> r.error]

\* POST /api/verify_session
verify_session(session_token, now) ==
    IF session_token = None
    THEN [code |-> 400, valid |-> FALSE, email |-> None, error |-> "No session token provided"]
    ELSE LET r == verify_session_token(session_token, now)
         IN  IF r.valid
             THEN [code |-> 200, valid |-> TRUE, email |-> r.email, error |-> ""]
             ELSE [code |-> 403, valid |-> FALSE, email |-> None, error |-> r.error]

---------------------------------------------------------------------------
(* Codec harness: a client that obtains or crafts a token and posts it *)

NoToken == [src |-> "none", token |-> None, account |-> "", at |-> 0, hours |-> 0,
            expiry |-> 0, form |-> "", goodsig |-> FALSE, flipped |-> 0]
NoReturn == [valid |-> FALSE, email |-> None, error |-> ""]

\* returned is what verify_session_token returned to verify_session; seen
\* tells with and without a session row of the token's account the token has
\* been verified at the time vres.at
NoVerify == [done |-> FALSE, at |-> 0, code |-> 0, valid |-> FALSE, email |-> None,
             error |-> "", returned |-> NoReturn, seen |-> {}]

\* the server issues a token for account a, valid for d hours
Issue(a, d) ==
    /\ ctok' = [NoToken EXCEPT !.src = "issued",
                               !.token = generate_session_token(<<a>>, d, clock),
                               !.account = a, !.at = clock, !.hours = d,
                               !.expiry = clock + d, !.form = "iso",
                               !.goodsig = TRUE]
    /\ vres' = NoVerify
    /\ UNCHANGED <<clock, serverVars>>

\* the expiry field of a crafted token
Rendered(form, t) == IF form = "iso" THEN isoformat(t) ELSE <<DateHour(t)>>

\* a holder of the secret (good) or a stranger builds a token by hand
Craft(a, form, t, good) ==
    LET expiry_str == Rendered(form, t)
        tag == IF good THEN hexdigest16(SESSION_SECRET, <<a, Sep>> \o expiry_str)
               ELSE <<"forged">>
    IN  /\ ctok' = [NoToken EXCEPT !.src = "crafted",
                                   !.token = <<a, Sep>> \o expiry_str \o <<Sep>> \o tag,
                                   !.account = a, !.at = clock, !.expiry = t,
                                   !.form = form, !.goodsig = good]
        /\ vres' = NoVerify
        /\ UNCHANGED <<clock, serverVars>>

\* character i of the tag is replaced by another character
TamperTag(i) ==
    /\ ctok.src = "issued"
    /\ ctok.flipped = 0
    /\ LET n == Len(ctok.token)
           tag == ctok.token[n]
       IN  ctok' = [ctok EXCEPT !.token = [ctok.token EXCEPT ![n] =
                                             tag \o "^" \o ToString(i)],
                                !.flipped = i, !.goodsig = FALSE]
    /\ vres' = NoVerify
    /\ UNCHANGED <<clock, serverVars>>

\* the client posts the token an authorize response gave it
Present(p) ==
    /\ resp[p].session_token # None
    /\ ctok' = [NoToken EXCEPT !.src = "authorized", !.token = resp[p].session_token,
                               !.account = req[p].email, !.form = "iso",
                               !.goodsig = TRUE]
    /\ vres' = NoVerify
    /\ UNCHANGED <<clock, serverVars>>

VerifySession ==
    /\ LET r == verify_session(ctok.token, clock)
           before == IF vres.done /\ vres.at = clock THEN vres.seen ELSE {}
           row == IF ctok.account \in Accounts
                  THEN {sessions[ctok.account].present} ELSE {}
       IN  vres' = [done |-> TRUE, at |-> clock, code |-> r.code, valid |-> r.valid,
                    email |-> r.email, error |-> r.error,
                    returned |-> IF ctok.token = None THEN NoReturn
                                 ELSE verify_session_token(ctok.token, clock),
                    seen |-> before \cup row]
    /\ UNCHANGED <<clock, ctok, serverVars>>

NoOut == [op |-> "", code |-> 0, google_token |-> "", email |-> "",
          has_license |-> FALSE, success |-> FALSE]

Tick ==
    /\ clock < MaxClock
    /\ clock' = clock + 1
    /\ out' = NoOut
    /\ UNCHANGED <<licenses, sessions, pc, req, loc, txn, resp, effects, pre, codecVars>>

---------------------------------------------------------------------------
(* Entitlement store: the two tables of init_db, read committed, one row    *)
(* lock per uncommitted write                                               *)

NoLicense == [present |-> FALSE, status |-> "", duration_hours |-> 0]
NoSession == [present |-> FALSE, expires_at |-> 0]
NoTxn == [upd |-> {}, del |-> {}, ins |-> {}]

\* another connection holds an uncommitted UPDATE of license row k
LicenseLocked(p, k) == \E q \in Procs \ {p} : k \in txn[q].upd

\* another connection holds an uncommitted DELETE of the session row of e
SessionLocked(p, e) == \E q \in Procs \ {p} : e \in txn[q].del

\* another connection holds an uncommitted INSERT of a session row for e
InsertPending(p, e) == \E q \in Procs \ {p} : \E r \in txn[q].ins : r[1] = e

\* the tables after the writes of t are committed
LicensesAfter(t) ==
    [k \in Keys |-> IF k \in t.upd THEN [licenses[k] EXCEPT !.status = "used"]
                    ELSE licenses[k]]
SessionsAfter(t) ==
    [e \in Accounts |->
        IF \E r \in t.ins : r[1] = e
        THEN [present |-> TRUE, expires_at |-> (CHOOSE r \in t.ins : r[1] = e)[2]]
        ELSE IF e \in t.del THEN NoSession
        ELSE sessions[e]]

\* what a commit of t applies, as seen from outside
Applied(t) ==
    (IF t.upd # {} THEN {"key_used"} ELSE {})
    \cup (IF t.ins # {} THEN {"session_put"} ELSE {})
    \cup (IF t.del # {} /\ t.ins = {} THEN {"session_deleted"} ELSE {})

\* conn.commit()
commit(p) ==
    /\ licenses' = LicensesAfter(txn[p])
    /\ sessions' = SessionsAfter(txn[p])
    /\ effects' = [effects EXCEPT ![p] = @ \cup Applied(txn[p])]
    /\ txn' = [txn EXCEPT ![p] = NoTxn]

---------------------------------------------------------------------------
(* Identity verifier (external): a bearer token names an account or fails *)

GoogleTokens == Accounts \cup {"bad"}

\* a verifier that takes a token it cannot check for the first account
verify_google_token_lenient(token) ==
    IF token \in Accounts THEN [email |-> token, error |-> ""]
    ELSE [email |-> CHOOSE a \in Accounts : TRUE, error |-> ""]

verify_google_token(token) ==
    IF token \in Accounts THEN [email |-> token, error |-> ""]
    ELSE [email |-> "", error |-> "Invalid access token"]

---------------------------------------------------------------------------
(* POST /api/authorize, one action per statement that reads the clock or    *)
(* the store                                                                *)

NoReq == [google_token |-> "", key |-> "", email |-> ""]
NoLoc == [session |-> NoSession, row |-> NoLicense, hours_left |-> 0, new_expiry |-> 0]
NoResp == [code |-> 0, kind |-> "", hours_remaining |-> 0, session_token |-> None,
           detail |-> ""]

Reply(code, kind) == [NoResp EXCEPT !.code = code, !.kind = kind]

Snapshot == [licenses |-> licenses, sessions |-> sessions, clock |-> clock, out |-> out]

\* the request arrives: the body is read and the identity checked
Start(p, token, key, traced) ==
    /\ pc[p] \in {"idle", "done"}
    /\ loc' = [loc EXCEPT ![p] = NoLoc]
    /\ effects' = [effects EXCEPT ![p] = {}]
    /\ pre' = IF traced THEN Snapshot ELSE pre
    /\ out' = IF traced THEN NoOut ELSE out
    /\ LET v == verify_google_token(token)
       IN  \/ /\ token = ""
              /\ req' = [req EXCEPT ![p] = [NoReq EXCEPT !.key = key]]
              /\ resp' = [resp EXCEPT ![p] = Reply(400, "MissingIdentity")]
              /\ pc' = [pc EXCEPT ![p] = "done"]
           \/ /\ token # ""
              /\ v.error # ""
              /\ req' = [req EXCEPT ![p] = [NoReq EXCEPT !.google_token = token,
                                                         !.key = key]]
              /\ resp' = [resp EXCEPT ![p] = Reply(403, "IdentityVerificationFailed")]
              /\ pc' = [pc EXCEPT ![p] = "done"]
           \/ /\ token # ""
              /\ v.error = ""
              /\ req' = [req EXCEPT ![p] = [google_token |-> token, key |-> key,
                                            email |-> v.email]]
              /\ resp' = [resp EXCEPT ![p] = NoResp]
              /\ pc' = [pc EXCEPT ![p] = "select_session"]
    /\ UNCHANGED <<clock, licenses, sessions, txn, codecVars>>

\* SELECT expires_at FROM active_sessions WHERE user_email = :e
SelectSession(p) ==
    /\ pc[p] = "select_session"
    /\ LET session == sessions[req[p].email]
       IN  /\ loc' = [loc EXCEPT ![p].session = session]
           /\ pc' = [pc EXCEPT ![p] = IF session.present THEN "check_expiry"
                                      ELSE "select_license"]
    /\ UNCHANGED <<clock, licenses, sessions, req, txn, resp, effects, pre, out, codecVars>>

\* a supplied key is redeemed before the session is looked at
CheckExpiryKeyFirst(p) ==
    /\ pc[p] = "check_expiry"
    /\ pc' = [pc EXCEPT ![p] = IF clock < loc[p].session.expires_at /\ req[p].key = ""
                               THEN "remaining" ELSE "delete_stale"]
    /\ UNCHANGED <<clock, licenses, sessions, req, loc, txn, resp, effects, pre, out, codecVars>>

\* if datetime.now() < expires_at
CheckExpiry(p) ==
    /\ pc[p] = "check_expiry"
    /\ pc' = [pc EXCEPT ![p] = IF clock < loc[p].session.expires_at THEN "remaining"
                               ELSE "delete_stale"]
    /\ UNCHANGED <<clock, licenses, sessions, req, loc, txn, resp, effects, pre, out, codecVars>>

\* remaining = expires_at - datetime.now()
Remaining(p) ==
    /\ pc[p] = "remaining"
    /\ loc' = [loc EXCEPT ![p].hours_left = loc[p].session.expires_at - clock]
    /\ pc' = [pc EXCEPT ![p] = "issue_active"]
    /\ UNCHANGED <<clock, licenses, sessions, req, txn, resp, effects, pre, out, codecVars>>

\* the token is made and "Session Valid" is returned
IssueActive(p) ==
    /\ pc[p] = "issue_active"
    /\ resp' = [resp EXCEPT ![p] =
                 [code |-> 200, kind |-> "SessionValid",
                  hours_remaining |-> loc[p].hours_left,
                  session_token |-> generate_session_token(<<req[p].email>>,
                                                          loc[p].hours_left, clock),
                  detail |-> ""]]
    /\ loc' = [loc EXCEPT ![p] = NoLoc]
    /\ txn' = [txn EXCEPT ![p] = NoTxn]
    /\ pc' = [pc EXCEPT ![p] = "done"]
    /\ UNCHANGED <<clock, licenses, sessions, req, effects, pre, out, codecVars>>

\* DELETE FROM active_sessions WHERE user_email = :e, on this connection
delete_session_row(p) ==
    /\ ~SessionLocked(p, req[p].email)
    /\ txn' = [txn EXCEPT ![p].del = IF sessions[req[p].email].present
                                     THEN @ \cup {req[p].email} ELSE @]

\* the expired row is left in place
DeleteStaleSkipped(p) ==
    /\ pc[p] = "delete_stale"
    /\ pc' = [pc EXCEPT ![p] = "commit_stale"]
    /\ UNCHANGED <<clock, licenses, sessions, req, loc, txn, resp, effects, pre, out, codecVars>>

\* the expired row is deleted
DeleteStale(p) ==
    /\ pc[p] = "delete_stale"
    /\ delete_session_row(p)
    /\ pc' = [pc EXCEPT ![p] = "commit_stale"]
    /\ UNCHANGED <<clock, licenses, sessions, req, loc, resp, effects, pre, out, codecVars>>

CommitStale(p) ==
    /\ pc[p] = "commit_stale"
    /\ commit(p)
    /\ pc' = [pc EXCEPT ![p] = "select_license"]
    /\ UNCHANGED <<clock, req, loc, resp, pre, out, codecVars>>

\* a key that is already used is taken for an unknown key
SelectLicenseUsedAsInvalid(p) ==
    /\ pc[p] = "select_license"
    /\ LET row == licenses[req[p].key]
       IN  \/ /\ req[p].key = ""
              /\ resp' = [resp EXCEPT ![p] = Reply(401, "KeyRequired")]
              /\ pc' = [pc EXCEPT ![p] = "done"]
              /\ loc' = [loc EXCEPT ![p] = NoLoc]
           \/ /\ req[p].key # ""
              /\ ~row.present \/ row.status = "used"
              /\ resp' = [resp EXCEPT ![p] = Reply(403, "InvalidKey")]
              /\ pc' = [pc EXCEPT ![p] = "done"]
              /\ loc' = [loc EXCEPT ![p] = NoLoc]
           \/ /\ req[p].key # ""
              /\ row.present
              /\ row.status # "used"
              /\ resp' = resp
              /\ pc' = [pc EXCEPT ![p] = "now_expiry"]
              /\ loc' = [loc EXCEPT ![p].row = row]
    /\ UNCHANGED <<clock, licenses, sessions, req, txn, effects, pre, out, codecVars>>

\* the key is required, looked up and must not be used
SelectLicense(p) ==
    /\ pc[p] = "select_license"
    /\ LET row == licenses[req[p].key]
       IN  \/ /\ req[p].key = ""
              /\ resp' = [resp EXCEPT ![p] = Reply(401, "KeyRequired")]
              /\ pc' = [pc EXCEPT ![p] = "done"]
              /\ loc' = [loc EXCEPT ![p] = NoLoc]
              /\ txn' = [txn EXCEPT ![p] = NoTxn]
           \/ /\ req[p].key # ""
              /\ ~row.present
              /\ resp' = [resp EXCEPT ![p] = Reply(403, "InvalidKey")]
              /\ pc' = [pc EXCEPT ![p] = "done"]
              /\ loc' = [loc EXCEPT ![p] = NoLoc]
              /\ txn' = [txn EXCEPT ![p] = NoTxn]
           \/ /\ req[p].key # ""
              /\ row.present
              /\ row.status = "used"
              /\ resp' = [resp EXCEPT ![p] = Reply(403, "KeyAlreadyUsed")]
              /\ pc' = [pc EXCEPT ![p] = "done"]
              /\ loc' = [loc EXCEPT ![p] = NoLoc]
              /\ txn' = [txn EXCEPT ![p] = NoTxn]
           \/ /\ req[p].key # ""
              /\ row.present
              /\ row.status # "used"
              /\ resp' = resp
              /\ pc' = [pc EXCEPT ![p] = "now_expiry"]
              /\ loc' = [loc EXCEPT ![p].row = row]
              /\ txn' = txn
    /\ UNCHANGED <<clock, licenses, sessions, req, effects, pre, out, codecVars>>

\* the duration of the key is left out of the new expiry
NowExpiryNoDuration(p) ==
    /\ pc[p] = "now_expiry"
    /\ loc' = [loc EXCEPT ![p].new_expiry = clock]
    /\ pc' = [pc EXCEPT ![p] = "update_license"]
    /\ UNCHANGED <<clock, licenses, sessions, req, txn, resp, effects, pre, out, codecVars>>

\* new_expiry = datetime.now() + timedelta(hours=duration)
NowExpiry(p) ==
    /\ pc[p] = "now_expiry"
    /\ loc' = [loc EXCEPT ![p].new_expiry = clock + loc[p].row.duration_hours]
    /\ pc' = [pc EXCEPT ![p] = "update_license"]
    /\ UNCHANGED <<clock, licenses, sessions, req, txn, resp, effects, pre, out, codecVars>>

\* the UPDATE is committed on its own, as on an autocommit connection
UpdateLicenseAutocommit(p) ==
    /\ pc[p] = "update_license"
    /\ ~LicenseLocked(p, req[p].key)
    /\ licenses' = [licenses EXCEPT ![req[p].key].status = "used"]
    /\ effects' = [effects EXCEPT ![p] = @ \cup {"key_used"}]
    /\ pc' = [pc EXCEPT ![p] = "delete_session"]
    /\ UNCHANGED <<clock, sessions, req, loc, txn, resp, pre, out, codecVars>>

\* UPDATE licenses SET status = 'used' WHERE key_code = :k
UpdateLicense(p) ==
    /\ pc[p] = "update_license"
    /\ ~LicenseLocked(p, req[p].key)
    /\ txn' = [txn EXCEPT ![p].upd = @ \cup {req[p].key}]
    /\ pc' = [pc EXCEPT ![p] = "delete_session"]
    /\ UNCHANGED <<clock, licenses, sessions, req, loc, resp, effects, pre, out, codecVars>>

\* the upsert's DELETE
DeleteSession(p) ==
    /\ pc[p] = "delete_session"
    /\ delete_session_row(p)
    /\ pc' = [pc EXCEPT ![p] = "insert_session"]
    /\ UNCHANGED <<clock, licenses, sessions, req, loc, resp, effects, pre, out, codecVars>>

\* the INSERT on a table with no primary key: it never waits and never fails
InsertSessionNoKey(p) ==
    /\ pc[p] = "insert_session"
    /\ txn' = [txn EXCEPT ![p].ins = {<<req[p].email, loc[p].new_expiry>>}]
    /\ pc' = [pc EXCEPT ![p] = "commit"]
    /\ UNCHANGED <<clock, licenses, sessions, req, loc, resp, effects, pre, out, codecVars>>

\* the upsert's INSERT: it waits for a pending delete or insert of a row of
\* the account, and goes through when the account has no row left
InsertSession(p) ==
    /\ pc[p] = "insert_session"
    /\ ~SessionLocked(p, req[p].email)
    /\ ~InsertPending(p, req[p].email)
    /\ ~sessions[req[p].email].present \/ req[p].email \in txn[p].del
    /\ txn' = [txn EXCEPT ![p].ins = {<<req[p].email, loc[p].new_expiry>>}]
    /\ pc' = [pc EXCEPT ![p] = "commit"]
    /\ UNCHANGED <<clock, licenses, sessions, req, loc, resp, effects, pre, out, codecVars>>

Commit(p) ==
    /\ pc[p] = "commit"
    /\ commit(p)
    /\ pc' = [pc EXCEPT ![p] = "issue_redeem"]
    /\ UNCHANGED <<clock, req, loc, resp, pre, out, codecVars>>

\* the token is made and "License activated!" is returned
IssueRedeem(p) ==
    /\ pc[p] = "issue_redeem"
    /\ resp' = [resp EXCEPT ![p] =
                 [code |-> 200, kind |-> "Activated",
                  hours_remaining |-> loc[p].row.duration_hours,
                  session_token |-> generate_session_token(<<req[p].email>>,
                                        loc[p].row.duration_hours, clock),
                  detail |-> ""]]
    /\ loc' = [loc EXCEPT ![p] = NoLoc]
    /\ txn' = [txn EXCEPT ![p] = NoTxn]
    /\ pc' = [pc EXCEPT ![p] = "done"]
    /\ UNCHANGED <<clock, licenses, sessions, req, effects, pre, out, codecVars>>

\* an exception leaves the with-block: the connection is closed, which rolls
\* back, and the request ends with a server error
Abort(p) ==
    /\ txn' = [txn EXCEPT ![p] = NoTxn]
    /\ resp' = [resp EXCEPT ![p] = [Reply(500, "ServiceError") EXCEPT !.detail = pc[p]]]
    /\ loc' = [loc EXCEPT ![p] = NoLoc]
    /\ pc' = [pc EXCEPT ![p] = "done"]
    /\ UNCHANGED <<clock, licenses, sessions, req, effects, pre, out, codecVars>>

\* the INSERT meets a committed row for the account that this connection has
\* not deleted: the primary key of active_sessions is violated.  It takes two
\* redemptions of different keys by one account; with a single key the store
\* serialises the redemptions on the key's row and the case cannot arise.
InsertConflict(p) ==
    /\ pc[p] = "insert_session"
    /\ ~SessionLocked(p, req[p].email)
    /\ ~InsertPending(p, req[p].email)
    /\ sessions[req[p].email].present
    /\ req[p].email \notin txn[p].del
    /\ Abort(p)

StorePcs == {"select_session", "delete_stale", "commit_stale", "select_license",
             "update_license", "delete_session", "insert_session", "commit"}

\* the store is unavailable at a statement
Fail(p) ==
    /\ pc[p] \in StorePcs
    /\ Abort(p)

---------------------------------------------------------------------------
(* Administrative operations *)

\* a key that is already in the store is issued again
create_key_api_reissue(k, d) ==
    /\ licenses' = [licenses EXCEPT ![k] = [present |-> TRUE, status |-> "unused",
                                            duration_hours |-> d]]
    /\ UNCHANGED <<clock, sessions, pc, req, loc, txn, resp, effects, pre, out, codecVars>>

\* POST /admin/create: a fresh key is inserted, unused
create_key_api(k, d) ==
    /\ ~licenses[k].present
    /\ licenses' = [licenses EXCEPT ![k] = [present |-> TRUE, status |-> "unused",
                                            duration_hours |-> d]]
    /\ UNCHANGED <<clock, sessions, pc, req, loc, txn, resp, effects, pre, out, codecVars>>

\* a DELETE with no WHERE clause
revoke_all_sessions(e, traced) ==
    /\ \A q \in Procs : txn[q].del = {}
    /\ sessions' = [a \in Accounts |-> NoSession]
    /\ out' = IF traced
              THEN [NoOut EXCEPT !.op = "revoke", !.code = 200, !.email = e,
                                 !.success = sessions[e].present]
              ELSE out
    /\ UNCHANGED <<clock, licenses, pc, req, loc, txn, resp, effects, pre, codecVars>>

\* POST /admin/revoke with an email: the DELETE waits for a pending delete of
\* the row, is committed, and result.rowcount tells whether a row was there
revoke_session(e, traced) ==
    /\ \A q \in Procs : e \notin txn[q].del
    /\ sessions' = [sessions EXCEPT ![e] = NoSession]
    /\ out' = IF traced
              THEN [NoOut EXCEPT !.op = "revoke", !.code = 200, !.email = e,
                                 !.success = sessions[e].present]
              ELSE out
    /\ UNCHANGED <<clock, licenses, pc, req, loc, txn, resp, effects, pre, codecVars>>

\* a status query that takes a session for live at the instant it expires
check_status_inclusive(token) ==
    /\ LET v == verify_google_token(token)
           session == sessions[v.email]
       IN  out' =
             IF token = ""
             THEN [NoOut EXCEPT !.op = "status", !.code = 400]
             ELSE IF v.error # ""
             THEN [NoOut EXCEPT !.op = "status", !.code = 403, !.google_token = token]
             ELSE [NoOut EXCEPT !.op = "status", !.code = 200, !.google_token = token,
                                !.email = v.email,
                                !.has_license = (session.present
                                                 /\ clock <= session.expires_at)]
    /\ UNCHANGED <<clock, licenses, sessions, pc, req, loc, txn, resp, effects, pre,
                   codecVars>>

\* POST /api/status
check_status(token) ==
    /\ LET v == verify_google_token(token)
           session == sessions[v.email]
       IN  out' =
             IF token = ""
             THEN [NoOut EXCEPT !.op = "status", !.code = 400]
             ELSE IF v.error # ""
             THEN [NoOut EXCEPT !.op = "status", !.code = 403, !.google_token = token]
             ELSE [NoOut EXCEPT !.op = "status", !.code = 200, !.google_token = token,
                                !.email = v.email,
                                !.has_license = (session.present
                                                 /\ clock < session.expires_at)]
    /\ UNCHANGED <<clock, licenses, sessions, pc, req, loc, txn, resp, effects, pre,
                   codecVars>>

---------------------------------------------------------------------------
(* Specifications *)

Init ==
    /\ clock = 0
    /\ licenses = [k \in Keys |-> NoLicense]
    /\ sessions = [e \in Accounts |-> NoSession]
    /\ pc = [p \in Procs |-> "idle"]
    /\ req = [p \in Procs |-> NoReq]
    /\ loc = [p \in Procs |-> NoLoc]
    /\ txn = [p \in Procs |-> NoTxn]
    /\ resp = [p \in Procs |-> NoResp]
    /\ effects = [p \in Procs |-> {}]
    /\ out = NoOut
    /\ pre = Snapshot
    /\ ctok = NoToken
    /\ vres = NoVerify

\* the statements of authorize() after the identity check
authorize(p) ==
    \/ SelectSession(p)
    \/ CheckExpiry(p)
    \/ Remaining(p)
    \/ IssueActive(p)
    \/ DeleteStale(p)
    \/ CommitStale(p)
    \/ SelectLicense(p)
    \/ NowExpiry(p)
    \/ UpdateLicense(p)
    \/ DeleteSession(p)
    \/ InsertSession(p)
    \/ Commit(p)
    \/ IssueRedeem(p)
    \/ Fail(p)

\* Concurrent requests: two request slots run authorize() in any interleaving
\* with each other, the administrator and the clock; one license key exists.
ConcurrentKeys == {"k1"}

Next ==
    \/ \E p \in Procs, token \in GoogleTokens \cup {""}, key \in ConcurrentKeys \cup {""} :
          Start(p, token, key, FALSE)
    \/ \E p \in Procs : authorize(p)
    \/ \E k \in ConcurrentKeys, d \in Durations : create_key_api(k, d)
    \/ \E e \in Accounts : revoke_session(e, FALSE)
    \/ Tick

Spec == Init /\ [][Next]_vars

\* Concurrent requests of one account: two request slots run authorize() for
\* the same account in any interleaving, with two license keys in the store.
RaceAccounts == {"alice"}
RaceDurations == {1}

RaceNext ==
    \/ \E p \in Procs, token \in RaceAccounts \cup {"bad", ""}, key \in Keys \cup {""} :
          Start(p, token, key, FALSE)
    \/ \E p \in Procs : authorize(p)
    \/ \E p \in Procs : InsertConflict(p)
    \/ \E k \in Keys, d \in RaceDurations : create_key_api(k, d)
    \/ \E e \in RaceAccounts : revoke_session(e, FALSE)
    \/ Tick

RaceSpec == Init /\ [][RaceNext]_vars

\* Sequential requests: one request at a time runs from arrival to response,
\* the administrator acts between requests, the clock advances at any time.
Quiet == \A p \in Procs : pc[p] \in {"idle", "done"}

SeqNext ==
    \/ \E token \in GoogleTokens \cup {""}, key \in Keys \cup {""} :
          Quiet /\ Start("r1", token, key, TRUE)
    \/ authorize("r1")
    \/ \E k \in Keys, d \in Durations : Quiet /\ create_key_api(k, d)
    \/ \E e \in Accounts : Quiet /\ revoke_session(e, FALSE)
    \/ Tick

SeqSpec == Init /\ [][SeqNext]_vars

\* Sequential requests and queries: as SeqSpec over one license key, with the
\* status query and with the responses of the status and revoke calls kept.
AdminNext ==
    \/ \E token \in GoogleTokens \cup {""}, key \in ConcurrentKeys \cup {""} :
          Quiet /\ Start("r1", token, key, TRUE)
    \/ authorize("r1")
    \/ \E k \in ConcurrentKeys, d \in Durations : Quiet /\ create_key_api(k, d)
    \/ \E e \in Accounts : Quiet /\ revoke_session(e, TRUE)
    \/ \E token \in GoogleTokens \cup {""} : Quiet /\ check_status(token)
    \/ Tick

AdminSpec == Init /\ [][AdminNext]_vars

\* The codec alone: tokens are issued, crafted, tampered with and verified.
CodecNext ==
    \/ \E a \in Accounts, d \in Hours : Issue(a, d)
    \/ \E a \in Accounts, form \in {"iso", "hour"}, t \in 0 .. MaxClock,
          good \in BOOLEAN : Craft(a, form, t, good)
    \/ \E i \in 1 .. TagLen : TamperTag(i)
    \/ VerifySession
    \/ Tick

CodecSpec == Init /\ [][CodecNext]_vars

\* Tokens against a changing store: requests run one at a time over one key,
\* the administrator creates keys and revokes sessions, and a client verifies
\* the token of a response or a token made with the secret.
OfflineNext ==
    \/ \E token \in GoogleTokens \cup {""}, key \in ConcurrentKeys \cup {""} :
          Quiet /\ Start("r1", token, key, FALSE)
    \/ authorize("r1")
    \/ \E k \in ConcurrentKeys, d \in Durations : Quiet /\ create_key_api(k, d)
    \/ \E e \in Accounts : Quiet /\ revoke_session(e, FALSE)
    \/ Quiet /\ Present("r1")
    \/ \E a \in Accounts, t \in 0 .. MaxClock : Quiet /\ Craft(a, "hour", t, TRUE)
    \/ Quiet /\ VerifySession
    \/ Tick

OfflineSpec == Init /\ [][OfflineNext]_vars

---------------------------------------------------------------------------
(* Properties of the codec, under CodecSpec *)

\* the posted token is one generate_session_token made, untouched
IssuedIntact == ctok.src = "issued" /\ ctok.flipped = 0

\* C2.  Token round-trip: a token issued for an account for a positive
\* duration at time T is accepted at every check time before T + duration,
\* and the verifier returns the account it was issued for.
C2_RoundTrip ==
    (vres.done /\ IssuedIntact /\ ctok.hours > 0 /\ vres.at < ctok.at + ctok.hours)
        => (vres.valid /\ vres.email = <<ctok.account>>)

\* C4.  Token tamper sensitivity: an issued token one character of whose tag
\* was replaced, checked before its expiry, is rejected with the error
\* "Invalid signature" and no other.
C4_TamperBadSignature ==
    (vres.done /\ ctok.src = "issued" /\ ctok.flipped # 0
              /\ vres.at < ctok.at + ctok.hours)
        => (~vres.valid /\ vres.error = "Invalid signature")

\* C7.  Expiry monotonicity: a token issued with duration D at time T is
\* rejected at every check time later than T + D.
C7_ExpiryMonotonic ==
    (vres.done /\ IssuedIntact /\ vres.at > ctok.at + ctok.hours) => ~vres.valid

C7_Witness ==
    /\ vres.done /\ IssuedIntact /\ ctok.hours > 0
    /\ vres.at > ctok.at + ctok.hours
    /\ ~vres.valid /\ vres.code = 403

\* C8.  Expired token with a valid signature: a token whose embedded expiry
\* is before the check time and whose tag is the HMAC of its account and
\* expiry is rejected with the error "Session expired" and status 403.
C8_ExpiredKind ==
    (vres.done /\ ctok.src = "crafted" /\ ctok.goodsig /\ ctok.expiry < vres.at)
        => (~vres.valid /\ vres.error = "Session expired" /\ vres.code = 403)

\* C18.  verify_session_token returns an account identifier only for tokens
\* it accepts: whenever it returns valid = False, for a malformed token, an
\* unparseable timestamp, an expired token or a bad signature, the account
\* identifier it returns is None.
C18_NoEmailUnlessValid ==
    (vres.done /\ ctok.token # None /\ ~vres.returned.valid)
        => vres.returned.email = None

---------------------------------------------------------------------------
(* Properties of concurrent requests, under Spec *)

\* C1.  Key single-use: no two requests are both answered "License
\* activated" for the same key.
C1_KeySingleUse ==
    \A p, q \in Procs :
        (p # q /\ resp[p].kind = "Activated" /\ resp[q].kind = "Activated")
            => req[p].key # req[q].key

\* a step marks a key used only together with the session row of the request
\* that redeems it, and puts a session row only together with its key
AtomicStep ==
    /\ \A k \in Keys :
          (licenses[k].present /\ licenses'[k].status # licenses[k].status)
              => \E p \in Procs :
                    /\ pc[p] = "commit"
                    /\ req[p].key = k
                    /\ licenses'[k].status = "used"
                    /\ sessions'[req[p].email] =
                          [present |-> TRUE, expires_at |-> loc[p].new_expiry]
    /\ \A e \in Accounts :
          (sessions'[e].present /\ sessions'[e] # sessions[e])
              => \E p \in Procs :
                    /\ pc[p] = "commit"
                    /\ req[p].email = e
                    /\ licenses'[req[p].key].status = "used"

\* a request that has returned holds no uncommitted write, and a request is
\* answered "License activated" only with both of its mutations committed
AtomicState ==
    \A p \in Procs :
        /\ pc[p] = "done" => txn[p] = NoTxn
        /\ ("key_used" \in effects[p]) <=> ("session_put" \in effects[p])
        /\ resp[p].kind = "Activated"
              => /\ {"key_used", "session_put"} \subseteq effects[p]
                 /\ licenses[req[p].key].status = "used"

\* C3.  Atomic activation: in every committed store state, also after a
\* failure at any statement of a redemption, the key flip and the session
\* upsert of a redemption are both applied or both absent, and the credential
\* is returned only after both are committed.
C3_AtomicActivation == []AtomicState /\ [][AtomicStep]_vars

\* a redemption failed between its UPDATE and its commit and left no trace
C3_Witness ==
    \E p \in Procs :
        /\ pc[p] = "done"
        /\ resp[p].kind = "ServiceError"
        /\ resp[p].detail \in {"delete_session", "insert_session", "commit"}
        /\ licenses[req[p].key].status = "unused"
        /\ ~sessions[req[p].email].present
        /\ effects[p] = {}

---------------------------------------------------------------------------
(* Properties of one request run alone, under SeqSpec.  pre is the store   *)
(* and the clock as the request found them.                                 *)

\* the step in which request p is answered
Responds(p) == pc[p] # "done" /\ pc'[p] = "done"

Verified(p) == req[p].email # ""
Answered(p) == resp[p].kind # "ServiceError"
PreRow(p) == pre.sessions[req[p].email]
PreKey(p) == pre.licenses[req[p].key]

\* A had an expired session row, or none, when the request arrived
StaleRow(p) == PreRow(p).present /\ PreRow(p).expires_at <= pre.clock
NoLiveSession(p) == ~PreRow(p).present \/ StaleRow(p)

OthersUntouched(p) ==
    \A e \in Accounts \ {req[p].email} : sessions[e] = pre.sessions[e]

Denials == {"KeyRequired", "InvalidKey", "KeyAlreadyUsed"}

\* the outcome of the request in a store that holds no session row for A: it
\* is stated without reading A's row in pre
KeyPathOutcome(p) ==
    LET k == req[p].key
        d == PreKey(p).duration_hours
    IN  /\ resp[p].kind = (IF k = "" THEN "KeyRequired"
                           ELSE IF ~PreKey(p).present THEN "InvalidKey"
                           ELSE IF PreKey(p).status = "used" THEN "KeyAlreadyUsed"
                           ELSE "Activated")
        /\ OthersUntouched(p)
        /\ resp[p].kind \in Denials
              => /\ licenses = pre.licenses
                 /\ ~sessions[req[p].email].present
        /\ resp[p].kind = "Activated"
              => /\ licenses = [pre.licenses EXCEPT ![k].status = "used"]
                 /\ sessions[req[p].email].present
                 /\ sessions[req[p].email].expires_at - d \in pre.clock .. clock
                 /\ "session_put" \in effects[p]

\* C5.  Session lazy expiry: a request of an account whose session row has
\* expired ends as the same request does in a store with no row for the
\* account, and the expired row is gone when it is answered.
C5_LazyExpiry ==
    [][\A p \in Procs :
          Responds(p) =>
              ((Verified(p) /\ StaleRow(p) /\ Answered(p)) => KeyPathOutcome(p))']_vars

C5_Witness ==
    \E p \in Procs :
        /\ pc[p] = "done" /\ Verified(p) /\ StaleRow(p)
        /\ resp[p].kind = "KeyRequired"
        /\ ~sessions[req[p].email].present
        /\ "session_deleted" \in effects[p]

\* C6.  The active-session path is read-only: a request that finds an
\* unexpired session row is answered "Session Valid" and leaves both tables
\* as they were, whatever key it supplies.
C6_ActivePathReadOnly ==
    [][\A p \in Procs :
          Responds(p) =>
              ((Verified(p) /\ PreRow(p).present /\ clock < PreRow(p).expires_at
                    /\ Answered(p))
                  => /\ resp[p].kind = "SessionValid"
                     /\ resp[p].code = 200
                     /\ licenses = pre.licenses
                     /\ sessions = pre.sessions)']_vars

C6_Witness ==
    \E p \in Procs :
        /\ pc[p] = "done" /\ resp[p].kind = "SessionValid"
        /\ req[p].key # "" /\ licenses[req[p].key].status = "unused"
        /\ sessions[req[p].email].present
        /\ clock < sessions[req[p].email].expires_at
        /\ licenses = pre.licenses /\ sessions = pre.sessions

\* C9.  Key-redemption denials: with no unexpired session, a request without
\* a key is answered KeyRequired (401), with a key the store does not hold
\* InvalidKey (403), with a used key KeyAlreadyUsed (403); then no key changes
\* and no session row is created.
C9_Denials ==
    [][\A p \in Procs :
          Responds(p) =>
              ((Verified(p) /\ NoLiveSession(p) /\ Answered(p))
                  => /\ req[p].key = ""
                        => (resp[p].kind = "KeyRequired" /\ resp[p].code = 401)
                     /\ (req[p].key # "" /\ ~PreKey(p).present)
                        => (resp[p].kind = "InvalidKey" /\ resp[p].code = 403)
                     /\ (req[p].key # "" /\ PreKey(p).present /\ PreKey(p).status = "used")
                        => (resp[p].kind = "KeyAlreadyUsed" /\ resp[p].code = 403)
                     /\ resp[p].kind \in Denials
                        => /\ licenses = pre.licenses
                           /\ \A e \in Accounts :
                                 sessions[e].present => sessions[e] = pre.sessions[e]
                           /\ ~sessions[req[p].email].present
                           /\ resp[p].session_token = None)']_vars

\* a key used by one account is refused to another
C9_Witness ==
    \E p \in Procs, e \in Accounts :
        /\ pc[p] = "done" /\ resp[p].kind = "KeyAlreadyUsed" /\ resp[p].code = 403
        /\ e # req[p].email /\ sessions[e].present
        /\ licenses[req[p].key].status = "used"
        /\ ~sessions[req[p].email].present

\* C10.  Successful redemption: with no unexpired session and an unused key
\* of duration d, a request running alone at time T is answered "License
\* activated" with hours_remaining = d; the key is then used and the account
\* has one session row, of expiry T + d.
C10_Redemption ==
    [][\A p \in Procs :
          Responds(p) =>
              ((Verified(p) /\ NoLiveSession(p) /\ Answered(p) /\ req[p].key # ""
                    /\ PreKey(p).present /\ PreKey(p).status = "unused")
                  => /\ resp[p].kind = "Activated"
                     /\ resp[p].code = 200
                     /\ resp[p].hours_remaining = PreKey(p).duration_hours
                     /\ licenses = [pre.licenses EXCEPT ![req[p].key].status = "used"]
                     /\ sessions[req[p].email].present
                     /\ sessions[req[p].email].expires_at - PreKey(p).duration_hours
                           \in pre.clock .. clock
                     /\ OthersUntouched(p))']_vars

C10_Witness ==
    \E p \in Procs :
        /\ pc[p] = "done" /\ resp[p].kind = "Activated"
        /\ resp[p].hours_remaining = 1
        /\ licenses[req[p].key].status = "used"
        /\ sessions[req[p].email] = [present |-> TRUE, expires_at |-> clock + 1]

\* a step keeps every stored key and its duration, and changes the status of a
\* key only from unused to used, in the commit of a redemption of that key
KeyMonotoneStep ==
    \A k \in Keys :
        licenses[k].present
            => /\ licenses'[k].present
               /\ licenses'[k].duration_hours = licenses[k].duration_hours
               /\ licenses'[k].status # licenses[k].status
                     => /\ licenses[k].status = "unused"
                        /\ licenses'[k].status = "used"
                        /\ \E p \in Procs :
                              /\ pc[p] = "commit" /\ pc'[p] = "issue_redeem"
                              /\ req[p].key = k

\* C11.  License-key lifecycle is monotone: over any sequence of create-key,
\* authorize and revoke operations a stored key is never removed, its duration
\* never changes, and its status only moves from unused to used, in a
\* successful redemption of that key.
C11_KeyLifecycle == [][KeyMonotoneStep]_vars

\* one key has been redeemed while the other one is still unused
C11_Witness ==
    \E p \in Procs, k \in Keys :
        /\ pc[p] = "done" /\ resp[p].kind = "Activated" /\ req[p].key # k
        /\ licenses[req[p].key].status = "used"
        /\ licenses[k].present /\ licenses[k].status = "unused"

\* the step in which request p commits its redemption
Redeems(p) == pc[p] = "commit" /\ pc'[p] = "issue_redeem"

\* C12.  Session expiry is in the future at creation: every stored key has a
\* positive duration, and the session row a redemption commits has an expiry
\* strictly later than the time T the redemption read the clock at.
C12_ExpiryInFuture ==
    [][\A p \in Procs :
          Redeems(p) =>
              LET row == sessions'[req[p].email]
                  T == loc[p].new_expiry - loc[p].row.duration_hours
              IN  /\ licenses[req[p].key].duration_hours > 0
                  /\ row.present
                  /\ row.expires_at > T]_vars

\* the expiry written in a token of generate_session_token: the fields
\* between the account and the tag
TokenExpiry(token) == fromisoformat(SubSeq(token, 3, Len(token) - 2)).t

\* C20.  A credential never outlives the entitlement it was issued for: when
\* a request is answered "Session Valid" or "License activated", also with the
\* clock advancing between its statements, the expiry written in the token is
\* not later than the expiry of the session row of the account in the store.
C20_TokenWithinSession ==
    [][\A p \in Procs :
          Responds(p) =>
              (resp[p].kind \in {"SessionValid", "Activated"}
                  => /\ sessions[req[p].email].present
                     /\ TokenExpiry(resp[p].session_token)
                           <= sessions[req[p].email].expires_at)']_vars

---------------------------------------------------------------------------
(* Properties of concurrent requests of one account, under RaceSpec *)

\* the step in which request p commits the writes of its connection
Commits(p) ==
    \/ pc[p] = "commit" /\ pc'[p] = "issue_redeem"
    \/ pc[p] = "commit_stale" /\ pc'[p] = "select_license"

\* the number of session rows of account e once the writes of t are committed
RowsAfter(t, e) ==
    (IF sessions[e].present /\ e \notin t.del THEN 1 ELSE 0)
        + Cardinality({r \in t.ins : r[1] = e})

\* C13.  At most one session per account: under any interleaving of authorize
\* and revoke requests, also with concurrent redemptions of different keys by
\* one account, every commit leaves at most one session row per account, and a
\* redemption leaves the account with the row it wrote and no other.
C13_OneSessionPerAccount ==
    [][\A p \in Procs :
          Commits(p) =>
              /\ \A e \in Accounts : RowsAfter(txn[p], e) <= 1
              /\ Redeems(p) =>
                    sessions'[req[p].email] =
                        [present |-> TRUE, expires_at |-> loc[p].new_expiry]]_vars

\* two redemptions of different keys by one account: one is committed, the
\* INSERT of the other meets its row
C13_Witness ==
    \E p, q \in Procs :
        /\ p # q /\ req[p].email = req[q].email /\ req[p].key # req[q].key
        /\ pc[q] = "done" /\ resp[q].kind = "Activated"
        /\ pc[p] = "insert_session"
        /\ sessions[req[p].email].present
        /\ req[p].email \notin txn[p].del

\* C19.  Lazy expiry reclamation never destroys a live entitlement: the
\* DELETE a request issues after it has read an expired session row of its
\* account never removes, when it is committed, a session row whose expiry is
\* in the future.
C19_StaleDeleteSparesLive ==
    [][\A p \in Procs :
          (pc[p] = "commit_stale" /\ pc'[p] = "select_license")
              => \A e \in txn[p].del :
                    ~(sessions[e].present /\ clock < sessions[e].expires_at)]_vars

---------------------------------------------------------------------------
(* Properties of verification against a changing store, under OfflineSpec *)

\* what a verification answers
Result(v) == <<v.code, v.valid, v.email, v.error, v.returned>>

\* C14.  Offline verification is independent of the store: verifying a token
\* leaves both tables as they are, and two verifications of the same token at
\* the same time give the same result whatever has happened to the store in
\* between.
C14_OfflineVerify ==
    [][/\ (vres'.done /\ vres' # vres)
            => (licenses' = licenses /\ sessions' = sessions)
       /\ (vres.done /\ vres'.done /\ ctok' = ctok /\ vres'.at = vres.at)
            => Result(vres') = Result(vres)]_vars

\* a token has been accepted with the session row of its account in the store
\* and, at the same time, with the row revoked
C14_Witness ==
    /\ vres.done /\ vres.valid /\ vres.at = clock
    /\ vres.seen = {TRUE, FALSE}
    /\ ~sessions[ctok.account].present

---------------------------------------------------------------------------
(* Properties of the status and revoke calls, under AdminSpec.  pre.out is  *)
(* the response of a call made just before the request arrived, at the time *)
(* of its arrival.                                                          *)

\* the step of a status query
StatusStep == out' # out /\ out'.op = "status"

\* C15.  Status mirrors the active-session check without side effects: the
\* status query reports has_license for an account exactly when an authorize
\* request of the account without a key, run on the same store at the same
\* time, is answered "Session Valid"; and the query leaves both tables, every
\* request and every response as they are.
C15_StatusMirror ==
    [][/\ StatusStep
            => UNCHANGED <<licenses, sessions, pc, req, loc, txn, resp, effects>>
       /\ \A p \in Procs :
             Responds(p) =>
                 ((Verified(p) /\ Answered(p) /\ req[p].key = ""
                      /\ pre.out.op = "status" /\ pre.out.code = 200
                      /\ pre.out.email = req[p].email
                      /\ clock = pre.clock)
                   => (resp[p].kind = "SessionValid" <=> pre.out.has_license))']_vars

\* the query found a row that expires at this instant, reported no license
\* and left the row in place; the request that followed was asked for a key
C15_Witness ==
    \E p \in Procs :
        /\ pc[p] = "done" /\ resp[p].kind = "KeyRequired"
        /\ pre.out.op = "status" /\ ~pre.out.has_license
        /\ pre.out.email = req[p].email
        /\ PreRow(p).present /\ PreRow(p).expires_at = pre.clock
        /\ clock = pre.clock

\* the step of a revoke call for account e
RevokeStep(e) == out' # out /\ out'.op = "revoke" /\ out'.email = e

\* C16.  Session revocation is idempotent and reports existence: revoke(A)
\* removes the session row of A and changes nothing else, reports success
\* exactly when A had a row, reports no success and changes nothing when it
\* follows a revoke(A) directly, and the authorize request of A without a key
\* that follows it is answered KeyRequired.
C16_Revoke ==
    [][/\ \A e \in Accounts :
             RevokeStep(e)
                 => /\ sessions' = [sessions EXCEPT ![e] = NoSession]
                    /\ licenses' = licenses
                    /\ out'.success = sessions[e].present
                    /\ (out.op = "revoke" /\ out.email = e)
                          => (~out'.success /\ sessions' = sessions)
       /\ \A p \in Procs :
             Responds(p) =>
                 ((Verified(p) /\ Answered(p) /\ req[p].key = ""
                      /\ pre.out.op = "revoke" /\ pre.out.email = req[p].email)
                   => (resp[p].kind = "KeyRequired" /\ resp[p].code = 401))']_vars

\* a session was revoked, the key that had paid for it stayed used, and the
\* request of the revoked account that followed was asked for a key
C16_Witness ==
    \E p \in Procs, k \in Keys :
        /\ pc[p] = "done" /\ resp[p].kind = "KeyRequired"
        /\ pre.out.op = "revoke" /\ pre.out.success
        /\ pre.out.email = req[p].email
        /\ ~pre.sessions[req[p].email].present
        /\ licenses[k].status = "used"

\* the identity credential of a call is missing or fails verification
NoIdentity(token) == token \notin Accounts
IdentityFailure(token) == IF token = "" THEN 400 ELSE 403

\* the step in which request p gets a response or moves on
Moves(p) == <<pc[p], req[p], resp[p]>>' # <<pc[p], req[p], resp[p]>>

\* C17.  Identity failure is terminal and side-effect free: an authorize or
\* status call whose identity credential is missing or fails verification is
\* answered 400 or 403 straight away, before any statement on the store; both
\* tables stay as they are, a supplied key stays unused and no credential is
\* issued.
C17_IdentityFailure ==
    [][/\ \A p \in Procs :
             (Moves(p) /\ NoIdentity(req'[p].google_token))
                 => /\ pc[p] \in {"idle", "done"}
                    /\ pc'[p] = "done"
                    /\ resp'[p].code = IdentityFailure(req'[p].google_token)
                    /\ resp'[p].kind \in {"MissingIdentity", "IdentityVerificationFailed"}
                    /\ resp'[p].session_token = None
                    /\ effects'[p] = {} /\ txn'[p] = NoTxn
                    /\ licenses' = licenses /\ sessions' = sessions
       /\ (StatusStep /\ NoIdentity(out'.google_token))
             => /\ out'.code = IdentityFailure(out'.google_token)
                /\ ~out'.has_license /\ out'.email = ""
                /\ UNCHANGED <<licenses, sessions, pc, req, loc, txn, resp, effects>>]_vars

\* a request with an unused key and a status query, both with a credential
\* that fails verification, were refused and the key is still unused
C17_Witness ==
    \E p \in Procs :
        /\ pc[p] = "done" /\ resp[p].kind = "IdentityVerificationFailed"
        /\ resp[p].code = 403
        /\ req[p].key # "" /\ licenses[req[p].key].present
        /\ licenses[req[p].key].status = "unused"
        /\ out.op = "status" /\ out.code = 403

=============================================================================
